---------------------------- MODULE Spec2Model ----------------------------
(***************************************************************************)
(* A model of src/main.py, the folder scanner: the content extractor       *)
(* (get_file_title_and_content), the tree renderer (_tree_generator,       *)
(* generate_directory_tree), the file collector                            *)
(* (scan_folder_and_collect_files) and the driver (main,                   *)
(* write_report_to_file).                                                  *)
(*                                                                         *)
(* Strings.  A Python str is modelled run-length encoded: a sequence of    *)
(* runs <<c, n>>, c a one-character string and n >= 1, no two adjacent     *)
(* runs with the same character.  This keeps the program's real caps       *)
(* (2000 characters, 50 lines, 200 and 150 characters for titles) while    *)
(* the values stay small.  File names and paths are plain sequences of     *)
(* one-character strings, compared by code point as Python compares str.   *)
(*                                                                         *)
(* The box-drawing characters of the tree are written in ASCII:            *)
(*   "|-- " for U+251C U+2500 U+2500 SPACE, "+-- " for U+2514 U+2500       *)
(*   U+2500 SPACE, "|   " for U+2502 and three spaces.                     *)
(***************************************************************************)
EXTENDS Integers, Sequences, FiniteSets, TLC

\* ------------------------------------------------------------------------
\* Bounds of the model
\* ------------------------------------------------------------------------
MaxBlocks == 2
MaxParas == 2
MaxNodes == 3
MaxDepth == 3

\* ------------------------------------------------------------------------
\* Configuration (src/main.py:49-64)
\* ------------------------------------------------------------------------
MAX_CONTENT_PREVIEW_LINES == 50
MAX_CONTENT_PREVIEW_CHARS == 2000
TXT_TITLE_CAP == 200
DOCX_HEADING_TITLE_CAP == 200
DOCX_PARA_TITLE_CAP == 150
DOCX_MAX_HEADINGS == 3

EXCLUDE_FOLDERS ==
    { <<"t","o","_","e","x","c","l","u","d","e">>,
      <<".","g","i","t">>,
      <<"_","_","p","y","c","a","c","h","e","_","_">>,
      <<"n","o","d","e","_","m","o","d","u","l","e","s">>,
      <<"b","a","c","k","u","p","s">>,
      <<"t","e","m","p">>,
      <<"l","i","b","s">> }

\* ------------------------------------------------------------------------
\* Python str, run-length encoded
\* ------------------------------------------------------------------------
\* Literals are normalised by Norm; every operator below keeps its result
\* normalised when its arguments are.
RECURSIVE Norm(_)
Norm(t) ==
    IF t = <<>> THEN <<>>
    ELSE LET h == Head(t)
             r == Norm(Tail(t))
         IN  IF h[2] = 0 THEN r
             ELSE IF r # <<>> /\ r[1][1] = h[1]
                  THEN << <<h[1], h[2] + r[1][2]>> >> \o Tail(r)
                  ELSE <<h>> \o r

\* a + b
Cat(a, b) ==
    IF a = <<>> THEN b
    ELSE IF b = <<>> THEN a
    ELSE IF a[Len(a)][1] = b[1][1]
         THEN SubSeq(a, 1, Len(a) - 1)
                \o << <<b[1][1], a[Len(a)][2] + b[1][2]>> >> \o Tail(b)
         ELSE a \o b

\* the str of a sequence of characters
Lit(cs) == Norm([i \in 1..Len(cs) |-> <<cs[i], 1>>])

\* c * n
Rep(c, n) == IF n = 0 THEN <<>> ELSE << <<c, n>> >>

\* the number of characters of runs lo..hi of t
RECURSIVE RunsLen(_, _, _)
RunsLen(t, lo, hi) ==
    IF lo > hi THEN 0
    ELSE IF lo = hi THEN t[lo][2]
    ELSE LET mid == (lo + hi) \div 2
         IN  RunsLen(t, lo, mid) + RunsLen(t, mid + 1, hi)

\* len(t)
StrLen(t) == RunsLen(t, 1, Len(t))

\* the first run in lo..hi at whose end at least k characters have been seen,
\* given that before characters precede run lo
RECURSIVE RunHolding(_, _, _, _, _)
RunHolding(t, k, lo, hi, before) ==
    IF lo = hi THEN [run |-> lo, before |-> before]
    ELSE LET mid == (lo + hi) \div 2
             left == RunsLen(t, lo, mid)
         IN  IF before + left >= k
             THEN RunHolding(t, k, lo, mid, before)
             ELSE RunHolding(t, k, mid + 1, hi, before + left)

\* t[:k]
Take(t, k) ==
    IF k <= 0 THEN <<>>
    ELSE IF k >= StrLen(t) THEN t
    ELSE LET at == RunHolding(t, k, 1, Len(t), 0)
         IN  SubSeq(t, 1, at.run - 1) \o << <<t[at.run][1], k - at.before>> >>

IsSpace(c) == c \in {" ", "\n", "\t"}

RECURSIVE LStrip(_)
LStrip(t) == IF t # <<>> /\ IsSpace(Head(t)[1]) THEN LStrip(Tail(t)) ELSE t

RECURSIVE RStrip(_)
RStrip(t) ==
    IF t # <<>> /\ IsSpace(t[Len(t)][1]) THEN RStrip(SubSeq(t, 1, Len(t) - 1)) ELSE t

\* str.strip()
Strip(t) == RStrip(LStrip(t))

NL == << <<"\n", 1>> >>

EndsWithNewline(line) == line # <<>> /\ line[Len(line)][1] = "\n"

\* The lines of two adjacent pieces of a text, joined: the last line of the
\* first piece continues in the second unless it ended with "\n"
JoinPieces(left, right) ==
    IF left = <<>> THEN right
    ELSE IF right = <<>> THEN left
    ELSE IF EndsWithNewline(left[Len(left)]) THEN left \o right
    ELSE SubSeq(left, 1, Len(left) - 1)
           \o <<Cat(left[Len(left)], right[1])>> \o Tail(right)

\* the lines of runs lo..hi of t, each line keeping its "\n"
RECURSIVE LinesOfRuns(_, _, _)
LinesOfRuns(t, lo, hi) ==
    IF lo > hi THEN <<>>
    ELSE IF lo = hi
         THEN IF t[lo][1] = "\n" THEN [i \in 1..t[lo][2] |-> NL] ELSE << <<t[lo]>> >>
    ELSE LET mid == (lo + hi) \div 2
         IN  JoinPieces(LinesOfRuns(t, lo, mid), LinesOfRuns(t, mid + 1, hi))

\* f.readlines() on the decoded text (universal newlines: every line end is "\n")
readlines(t) == LinesOfRuns(t, 1, Len(t))

\* str.splitlines(): the lines without their line ends
splitlines(t) ==
    LET ls == readlines(t) IN
    [i \in 1..Len(ls) |->
        IF EndsWithNewline(ls[i]) THEN SubSeq(ls[i], 1, Len(ls[i]) - 1) ELSE ls[i]]

\* sep.join(parts[lo..hi])
RECURSIVE JoinRange(_, _, _, _)
JoinRange(sep, parts, lo, hi) ==
    IF lo > hi THEN <<>>
    ELSE IF lo = hi THEN parts[lo]
    ELSE LET mid == (lo + hi) \div 2
         IN  Cat(Cat(JoinRange(sep, parts, lo, mid), sep),
                 JoinRange(sep, parts, mid + 1, hi))

\* sep.join(parts)
Join(sep, parts) == JoinRange(sep, parts, 1, Len(parts))

\* "\n... (content truncated)"
TRUNCATION_MARKER ==
    Lit(<<"\n", ".", ".", ".", " ", "(", "c", "o", "n", "t", "e", "n", "t", " ",
          "t", "r", "u", "n", "c", "a", "t", "e", "d", ")">>)

ELLIPSIS == Lit(<<".", ".", ".">>)

\* ------------------------------------------------------------------------
\* File names: Path(filepath).name, .suffix, .lower()
\* ------------------------------------------------------------------------
Lower(c) ==
    CASE c = "T" -> "t" [] c = "X" -> "x" [] c = "D" -> "d" [] c = "O" -> "o"
      [] c = "C" -> "c" [] c = "P" -> "p" [] c = "F" -> "f" [] c = "N" -> "n"
      [] c = "G" -> "g" [] c = "R" -> "r" [] c = "A" -> "a" [] OTHER -> c

lower(s) == [i \in 1..Len(s) |-> Lower(s[i])]

\* str.rfind("."), 0 when there is none (positions from 1)
RECURSIVE RFindDot(_, _)
RFindDot(s, i) == IF i = 0 THEN 0 ELSE IF s[i] = "." THEN i ELSE RFindDot(s, i - 1)

\* PurePath.suffix of a final component: from the last dot, unless the dot is
\* the first or the last character
suffix(name) ==
    LET i == RFindDot(name, Len(name)) IN
    IF 1 < i /\ i < Len(name) THEN SubSeq(name, i, Len(name)) ELSE <<>>


\* ------------------------------------------------------------------------
\* get_file_title_and_content (src/main.py:67-160)
\* ------------------------------------------------------------------------
\* An optional str: None is <<>>, the str t is <<t>>
None == <<>>
Some(t) == <<t>>

\* A notes string: the f-string's text and the values put into it
Note(fmt, args) == [fmt |-> fmt, args |-> args]
NoNote == Note("", <<>>)

EXT_TXT == <<".","t","x","t">>
EXT_DOCX == <<".","d","o","c","x">>

NOT_IMPLEMENTED_EXTENSIONS ==
    {
      <<".","p","d","f">>, <<".","x","l","s","x">>, <<".","x","l","s">>,
      <<".","p","p","t">>, <<".","p","p","t","x">> }

BINARY_EXTENSIONS ==
    {
      <<".","j","p","g">>, <<".","j","p","e","g">>, <<".","p","n","g">>,
      <<".","g","i","f">>, <<".","b","m","p">>, <<".","t","i","f","f">>,
      <<".","s","v","g">>, <<".","e","x","e">>, <<".","d","l","l">>,
      <<".","a","p","p">>, <<".","b","i","n">>, <<".","z","i","p">>,
      <<".","g","z">>, <<".","t","a","r">>, <<".","r","a","r">>,
      <<".","7","z">>, <<".","m","p","3">>, <<".","w","a","v">>,
      <<".","a","a","c">>, <<".","f","l","a","c">>, <<".","m","p","4">>,
      <<".","a","v","i">>, <<".","m","o","v">>, <<".","m","k","v">>,
      <<".","w","e","b","m">>, <<".","l","n","k">>, <<".","u","r","l">> }

\* if len(title) > cap: title = title[:cap] + "..."
CapTitle(title, cap) ==
    IF StrLen(title) > cap THEN Cat(Take(title, cap), ELLIPSIS) ELSE title

\* lines 82-83: the first of lines lo..hi whose strip() is not empty, 0 when
\* there is none (the loop, halved so that the search stays shallow)
RECURSIVE FirstNonBlank(_, _, _)
FirstNonBlank(lines, lo, hi) ==
    IF lo > hi THEN 0
    ELSE IF lo = hi THEN (IF Strip(lines[lo]) # <<>> THEN lo ELSE 0)
    ELSE LET mid == (lo + hi) \div 2
             first == FirstNonBlank(lines, lo, mid)
         IN  IF first # 0 THEN first ELSE FirstNonBlank(lines, mid + 1, hi)

\* A variant of TxtTitle that forgets to trim the line
TxtTitle_Untrimmed(lines) ==
    LET at == FirstNonBlank(lines, 1, Len(lines)) IN
    IF at = 0 THEN None
    ELSE Some(CapTitle(lines[at], TXT_TITLE_CAP))

\* .txt, lines 82-86
TxtTitle(lines) ==
    LET at == FirstNonBlank(lines, 1, Len(lines)) IN
    IF at = 0 THEN None
    ELSE Some(CapTitle(Strip(lines[at]), TXT_TITLE_CAP))

\* A variant of TxtPreview that tests the line cap before the character cap
TxtPreview_LinesFirst(lines) ==
    LET full_content == Join(<<>>, lines) IN
    IF Len(lines) > MAX_CONTENT_PREVIEW_LINES
    THEN Cat(Join(<<>>, SubSeq(lines, 1, MAX_CONTENT_PREVIEW_LINES)),
             TRUNCATION_MARKER)
    ELSE IF StrLen(full_content) > MAX_CONTENT_PREVIEW_CHARS
         THEN Cat(Take(full_content, MAX_CONTENT_PREVIEW_CHARS), TRUNCATION_MARKER)
         ELSE full_content

\* .txt, lines 87-93
TxtPreview(lines) ==
    LET full_content == Join(<<>>, lines) IN
    IF StrLen(full_content) > MAX_CONTENT_PREVIEW_CHARS
    THEN Cat(Take(full_content, MAX_CONTENT_PREVIEW_CHARS), TRUNCATION_MARKER)
    ELSE IF Len(lines) > MAX_CONTENT_PREVIEW_LINES
         THEN Cat(Join(<<>>, SubSeq(lines, 1, MAX_CONTENT_PREVIEW_LINES)),
                  TRUNCATION_MARKER)
         ELSE full_content

\* A variant of FallbackPreview that keeps one line too many
FallbackPreview_OneMore(lines) ==
    LET full_content == Join(<<>>, lines) IN
    IF StrLen(full_content) > MAX_CONTENT_PREVIEW_CHARS
    THEN Cat(Take(full_content, MAX_CONTENT_PREVIEW_CHARS), TRUNCATION_MARKER)
    ELSE IF Len(lines) > MAX_CONTENT_PREVIEW_LINES
         THEN Cat(Join(<<>>, SubSeq(lines, 1, MAX_CONTENT_PREVIEW_LINES + 1)),
                  TRUNCATION_MARKER)
         ELSE full_content

\* the fallback branch, lines 139-145
FallbackPreview(lines) ==
    LET full_content == Join(<<>>, lines) IN
    IF StrLen(full_content) > MAX_CONTENT_PREVIEW_CHARS
    THEN Cat(Take(full_content, MAX_CONTENT_PREVIEW_CHARS), TRUNCATION_MARKER)
    ELSE IF Len(lines) > MAX_CONTENT_PREVIEW_LINES
         THEN Cat(Join(<<>>, SubSeq(lines, 1, MAX_CONTENT_PREVIEW_LINES)),
                  TRUNCATION_MARKER)
         ELSE full_content

\* para.style and para.style.name and para.style.name.lower().startswith('heading');
\* a paragraph without a style has the style name <<>>
IsHeadingStyle(style) ==
    /\ Len(style) >= 7
    /\ SubSeq(lower(style), 1, 7) = <<"h","e","a","d","i","n","g">>

\* lines 99-103
DocxTitlesFound(paragraphs) ==
    LET heading(p) == IsHeadingStyle(p.style) /\ Strip(p.text) # <<>>
        found == SelectSeq(paragraphs, heading)
    IN  [i \in 1..Len(found) |-> Strip(found[i].text)]

\* lines 109-113
RECURSIVE DocxFirstParagraphTitle(_)
DocxFirstParagraphTitle(paragraphs) ==
    IF paragraphs = <<>> THEN None
    ELSE IF Strip(Head(paragraphs).text) # <<>>
         THEN Some(CapTitle(Strip(Head(paragraphs).text), DOCX_PARA_TITLE_CAP))
         ELSE DocxFirstParagraphTitle(Tail(paragraphs))

\* lines 105-113
DocxTitle(paragraphs) ==
    LET titles_found == DocxTitlesFound(paragraphs) IN
    IF titles_found # <<>>
    THEN Some(CapTitle(
             Join(Lit(<<";", " ">>),
                  SubSeq(titles_found, 1,
                         IF Len(titles_found) < DOCX_MAX_HEADINGS
                         THEN Len(titles_found) ELSE DOCX_MAX_HEADINGS)),
             DOCX_HEADING_TITLE_CAP))
    ELSE DocxFirstParagraphTitle(paragraphs)

\* lines 115-123
DocxPreview(paragraphs) ==
    LET full_text == Join(NL, [i \in 1..Len(paragraphs) |-> paragraphs[i].text])
        text_lines == splitlines(full_text)
    IN  IF StrLen(full_text) > MAX_CONTENT_PREVIEW_CHARS
        THEN Cat(Take(full_text, MAX_CONTENT_PREVIEW_CHARS), TRUNCATION_MARKER)
        ELSE IF Len(text_lines) > MAX_CONTENT_PREVIEW_LINES
             THEN Cat(Join(NL, SubSeq(text_lines, 1, MAX_CONTENT_PREVIEW_LINES)),
                      TRUNCATION_MARKER)
             ELSE full_text

\* What the function returns, with two ghost fields: read_as_text (the file
\* was opened and read as text) and raised (the exception caught, "" if none)
Extracted(title, preview, notes, read, raised) ==
    [title |-> title, content_preview |-> preview, content_notes |-> notes,
     read_as_text |-> read, raised |-> raised]

\* A variant of the handler that swallows the exception without a note
OuterExcept_Silent(name, kind, detail, read) ==
    Extracted(None, <<>>, NoNote, read, kind)

\* the handler of lines 155-158
OuterExcept(name, kind, detail, read) ==
    Extracted(None, <<>>,
              Note("[ERROR processing file {path_obj.name}: {type(e).__name__} - {e}]",
                   <<name, kind, detail>>),
              read, kind)

\* lines 78-95
TxtBranch(name, file) ==
    IF file.open_error # ""
    THEN OuterExcept(name, file.open_error, "open", TRUE)
    ELSE LET lines == readlines(file.text) IN
         IF lines # <<>>
         THEN Extracted(TxtTitle(lines), TxtPreview(lines), NoNote, TRUE, "")
         ELSE Extracted(None, <<>>, Note("[Empty text file]", <<>>), TRUE, "")

\* lines 97-127
DocxBranch(name, file) ==
    IF file.docx_error # ""
    THEN OuterExcept(name, file.docx_error, "Document", FALSE)
    ELSE LET title == DocxTitle(file.paragraphs)
             content_preview == DocxPreview(file.paragraphs)
             content_notes ==
                 IF Strip(content_preview) = <<>> /\ title = None
                 THEN Note("[DOCX appears empty or has no extractable text/headings]", <<>>)
                 ELSE IF Strip(content_preview) = <<>> /\ title # None
                      THEN Note("[DOCX has headings but no other significant body text found for preview]", <<>>)
                      ELSE NoNote
         IN  Extracted(title, content_preview, content_notes, FALSE, "")

\* lines 134-153
FallbackBranch(extension, file) ==
    IF file.open_error # ""
    THEN Extracted(None, <<>>,
                   Note("[Unknown file type ({extension}), likely binary or not text-readable]",
                        <<extension>>),
                   TRUE, file.open_error)
    ELSE LET lines == readlines(file.text)
             content_preview == FallbackPreview(lines)
         IN  IF lines # <<>>
             THEN IF Strip(content_preview) # <<>>
                  THEN Extracted(None, content_preview,
                                 Note("[Attempted text extraction for unknown type {extension}]",
                                      <<extension>>),
                                 TRUE, "")
                  ELSE Extracted(None, content_preview,
                                 Note("[Unknown file type ({extension}), appears empty or unreadable as text]",
                                      <<extension>>),
                                 TRUE, "")
             ELSE Extracted(None, <<>>,
                            Note("[Unknown file type ({extension}), appears empty or unreadable as text]",
                                 <<extension>>),
                            TRUE, "")

\* lines 71-160; name is Path(filepath).name, file what the file system holds
\* there, document_available whether the import of docx.Document succeeded
get_file_title_and_content(name, file, document_available) ==
    LET extension == lower(suffix(name)) IN
    IF extension = EXT_TXT THEN TxtBranch(name, file)
    ELSE IF extension = EXT_DOCX /\ document_available THEN DocxBranch(name, file)
    ELSE IF extension \in NOT_IMPLEMENTED_EXTENSIONS
         THEN Extracted(None, <<>>,
                        Note("[Content extraction for {extension} not yet implemented, but file is present.]",
                             <<extension>>),
                        FALSE, "")
    ELSE IF extension \in BINARY_EXTENSIONS
         THEN Extracted(None, <<>>,
                        Note("[Binary, media, archive, or shortcut file ({extension}). Content not displayed.]",
                             <<extension>>),
                        FALSE, "")
    ELSE FallbackBranch(extension, file)


\* ------------------------------------------------------------------------
\* Paths and their order
\* ------------------------------------------------------------------------
\* ord(c), for the characters of the names below
Ord(c) ==
    CASE c = "." -> 46 [] c = "/" -> 47 [] c = "a" -> 97 [] c = "e" -> 101
      [] c = "m" -> 109 [] c = "p" -> 112 [] c = "t" -> 116 [] c = "x" -> 120

\* a < b on str: by code point, a proper prefix first
RECURSIVE StrLess(_, _)
StrLess(a, b) ==
    IF b = <<>> THEN FALSE
    ELSE IF a = <<>> THEN TRUE
    ELSE IF Ord(Head(a)) # Ord(Head(b)) THEN Ord(Head(a)) < Ord(Head(b))
    ELSE StrLess(Tail(a), Tail(b))

\* p < q on pathlib.Path (POSIX): the lists of parts compared, part by part
RECURSIVE PathLess(_, _)
PathLess(p, q) ==
    IF q = <<>> THEN FALSE
    ELSE IF p = <<>> THEN TRUE
    ELSE IF Head(p) # Head(q) THEN StrLess(Head(p), Head(q))
    ELSE PathLess(Tail(p), Tail(q))

\* str(Path(root) / ... / name), written without the prefix str(root) + "/"
\* that every path of one scan shares
RECURSIVE PathStr(_)
PathStr(p) ==
    IF p = <<>> THEN <<>>
    ELSE IF Len(p) = 1 THEN p[1]
    ELSE p[1] \o <<"/">> \o PathStr(Tail(p))

\* str.rfind("/"), 0 when there is none
RECURSIVE RFindSep(_, _)
RFindSep(s, i) == IF i = 0 THEN 0 ELSE IF s[i] = "/" THEN i ELSE RFindSep(s, i - 1)

\* Path(s).name
PathName(s) == SubSeq(s, RFindSep(s, Len(s)) + 1, Len(s))

\* list.sort() on str: x put into the sorted list s
RECURSIVE InsertStr(_, _)
InsertStr(x, s) ==
    IF s = <<>> THEN <<x>>
    ELSE IF StrLess(x, Head(s)) THEN <<x>> \o s
    ELSE <<Head(s)>> \o InsertStr(x, Tail(s))

RECURSIVE SortStrs(_)
SortStrs(s) == IF s = <<>> THEN <<>> ELSE InsertStr(Head(s), SortStrs(Tail(s)))

\* sorted() on Path objects
RECURSIVE InsertPath(_, _)
InsertPath(x, s) ==
    IF s = <<>> THEN <<x>>
    ELSE IF PathLess(x, Head(s)) THEN <<x>> \o s
    ELSE <<Head(s)>> \o InsertPath(x, Tail(s))

RECURSIVE SortPaths(_)
SortPaths(s) == IF s = <<>> THEN <<>> ELSE InsertPath(Head(s), SortPaths(Tail(s)))

RECURSIVE Flatten(_)
Flatten(ss) == IF ss = <<>> THEN <<>> ELSE Head(ss) \o Flatten(Tail(ss))

\* ------------------------------------------------------------------------
\* The file system below the root
\* ------------------------------------------------------------------------
NAME_A == <<"a">>
NAME_A_TXT == <<"a",".","t","x","t">>
NAME_TEMP == <<"t","e","m","p">>

Names == {NAME_A, NAME_A_TXT, NAME_TEMP}

\* The orders in which the operating system may list a directory
EnumOrders == { o \in [1..Cardinality(Names) -> Names] :
                  \A i, j \in DOMAIN o : o[i] = o[j] => i = j }

\* The root is <<>>, a readable directory
IsDir(tree, p) == p = <<>> \/ (p \in DOMAIN tree /\ tree[p].kind = "dir")
IsFile(tree, p) == p \in DOMAIN tree /\ tree[p].kind = "file"
Readable(tree, p) == p = <<>> \/ tree[p].readable

\* os.scandir(d) / Path.iterdir(): the entries of d in the order the system gives
ListDir(tree, d, order) ==
    LET present(n) == Append(d, n) \in DOMAIN tree
        found == SelectSeq(order, present)
    IN  [i \in 1..Len(found) |-> Append(d, found[i])]

\* ------------------------------------------------------------------------
\* _tree_generator (src/main.py:163-187)
\* ------------------------------------------------------------------------
branch == "|-- "
last_branch == "+-- "
BLANK_CONTINUATION == "    "
BAR_CONTINUATION == "|   "

\* One line written to file_out: f"{prefix}{connector}{item.name}" with "/"
\* after a directory's name; path is a ghost field, the entry the line is for
TreeLine(prefix, connector, name, entry, path) ==
    [prefix |-> prefix, connector |-> connector, name |-> name,
     entry |-> entry, path |-> path]

\* A variant of TreeItems that does not leave the excluded directories out
TreeItems_NoExclusion(tree, directory, order) ==
    LET listed == ListDir(tree, directory, order)
        is_dir(item) == IsDir(tree, item)
        is_file(item) == IsFile(tree, item)
    IN  SortPaths(SelectSeq(listed, is_dir) \o SelectSeq(listed, is_file))

\* lines 167-168: the directories kept, then the files, sorted as one list
TreeItems(tree, directory, order) ==
    LET listed == ListDir(tree, directory, order)
        kept_dir(item) == IsDir(tree, item) /\ item[Len(item)] \notin EXCLUDE_FOLDERS
        is_file(item) == IsFile(tree, item)
    IN  SortPaths(SelectSeq(listed, kept_dir) \o SelectSeq(listed, is_file))

\* line 178
Connector(i, n) == IF i = n THEN last_branch ELSE branch

\* A variant of NewPrefix that always continues with the bar
NewPrefix_AlwaysBar(prefix, i, n) == prefix \o <<BAR_CONTINUATION>>

\* line 184
NewPrefix(prefix, i, n) ==
    prefix \o <<IF i = n THEN BLANK_CONTINUATION ELSE BAR_CONTINUATION>>

RECURSIVE _tree_generator(_, _, _, _)
_tree_generator(tree, directory, prefix, order) ==
    IF ~Readable(tree, directory)
    THEN <<TreeLine(prefix, last_branch, <<"[Error: Permission Denied]">>, "denied",
                    Append(directory, <<>>))>>
    ELSE LET items == TreeItems(tree, directory, order)
             n == Len(items)
             write(i) ==
                 LET item == items[i]
                     connector == Connector(i, n)
                 IN  IF IsDir(tree, item)
                     THEN <<TreeLine(prefix, connector, item[Len(item)], "dir", item)>>
                            \o _tree_generator(tree, item, NewPrefix(prefix, i, n), order)
                     ELSE <<TreeLine(prefix, connector, item[Len(item)], "file", item)>>
         IN  Flatten([i \in 1..n |-> write(i)])

\* ------------------------------------------------------------------------
\* scan_folder_and_collect_files (src/main.py:208-231)
\* ------------------------------------------------------------------------
\* lines 223-228: os.walk top-down, the excluded directories pruned; a
\* directory that cannot be listed is skipped (os.walk's onerror is None)
RECURSIVE WalkAndCollect(_, _, _)
WalkAndCollect(tree, top, order) ==
    IF ~Readable(tree, top) THEN <<>>
    ELSE LET listed == ListDir(tree, top, order)
             is_dir(e) == IsDir(tree, e)
             not_dir(e) == ~IsDir(tree, e)
             kept(e) == e[Len(e)] \notin EXCLUDE_FOLDERS
             dirs == SelectSeq(SelectSeq(listed, is_dir), kept)
             files == SelectSeq(listed, not_dir)
         IN  [i \in 1..Len(files) |-> PathStr(files[i])]
               \o Flatten([i \in 1..Len(dirs) |-> WalkAndCollect(tree, dirs[i], order)])

\* A variant of SortCollected that leaves the list as the walk built it
SortCollected_Unsorted(all_files_paths) == all_files_paths

\* line 230
SortCollected(all_files_paths) == SortStrs(all_files_paths)

scan_folder_and_collect_files(tree, order) ==
    SortCollected(WalkAndCollect(tree, <<>>, order))

\* ------------------------------------------------------------------------
\* State
\* ------------------------------------------------------------------------
VARIABLES
    Document,         \* TRUE: docx.Document was imported; FALSE: Document = None
    root_kind,        \* what the path given to main is: "dir", "file", "missing"
    fs,               \* the tree below the root: path |-> entry
    pc,               \* where main is
    collected_files,  \* main's collected_files, a list of path strings
    report,           \* what has been written to the output file, in order
    file_index,       \* the passes of write_report_to_file's loop made so far
    tree_calls,       \* ghost: calls of generate_directory_tree so far
    extract_calls,    \* ghost: the paths get_file_title_and_content was called with
    x_name,           \* the extractor alone: the file's name,
    x_file,           \*   what the file system holds there,
    x_pc,             \*   "call" before and "return" after the call,
    x_result          \*   what the call returned

vars == <<Document, root_kind, fs, pc, collected_files, report, file_index,
          tree_calls, extract_calls, x_name, x_file, x_pc, x_result>>

scan_vars == <<root_kind, fs, pc, collected_files, report, file_index,
               tree_calls, extract_calls>>

extract_vars == <<x_name, x_file, x_pc, x_result>>

\* ------------------------------------------------------------------------
\* The extractor alone: its inputs
\* ------------------------------------------------------------------------
\* The body of a line, without its line end
LineBodies ==
    { <<>>,
      Lit(<<" ", "x", " ">>),
      Rep("x", TXT_TITLE_CAP),
      Rep("x", TXT_TITLE_CAP + 1),
      Rep("x", MAX_CONTENT_PREVIEW_CHARS - 1),
      Rep("x", MAX_CONTENT_PREVIEW_CHARS) }

\* A block is one line repeated
Blocks == [body : LineBodies, reps : {1, MAX_CONTENT_PREVIEW_LINES - 1}]

\* t * n
RECURSIVE Times(_, _)
Times(t, n) ==
    IF n = 0 THEN <<>>
    ELSE IF n = 1 THEN t
    ELSE LET half == Times(t, n \div 2)
         IN  IF n % 2 = 0 THEN Cat(half, half) ELSE Cat(Cat(half, half), t)

BlockText(b) == Times(Cat(b.body, NL), b.reps)

RECURSIVE BlocksText(_)
BlocksText(bs) == IF bs = <<>> THEN <<>> ELSE Cat(BlockText(Head(bs)), BlocksText(Tail(bs)))

BlockSeqs == UNION { [1..n -> Blocks] : n \in 0..MaxBlocks }

\* A last line that does not end with a line end
Tails == { <<>>, Lit(<<" ", "x", " ">>) }

TextInputs == { Cat(BlocksText(bs), tl) : bs \in BlockSeqs, tl \in Tails }

\* A file that is text: open() succeeds, Document() raises
TextFiles ==
    { [open_error |-> "", text |-> t,
       docx_error |-> "PackageNotFoundError", paragraphs |-> <<>>] : t \in TextInputs }

\* A file that cannot be opened
UnreadableFiles ==
    { [open_error |-> "PermissionError", text |-> <<>>,
       docx_error |-> "PackageNotFoundError", paragraphs |-> <<>>] }

STYLE_HEADING == <<"H","e","a","d","i","n","g"," ","1">>
STYLE_NORMAL == <<"N","o","r","m","a","l">>

ParaTexts ==
    { <<>>,
      Lit(<<" ", "x", " ">>),
      Rep("x", DOCX_PARA_TITLE_CAP + 1),
      Rep("x", DOCX_HEADING_TITLE_CAP + 1),
      Rep("\n", MAX_CONTENT_PREVIEW_LINES + 1),
      Rep("x", MAX_CONTENT_PREVIEW_CHARS + 1) }

Paragraphs == [style : {STYLE_HEADING, STYLE_NORMAL, <<>>}, text : ParaTexts]

ParagraphSeqs == UNION { [1..n -> Paragraphs] : n \in 0..MaxParas }

\* A word-processor document: Document() parses it; read as text it is the
\* bytes of a zip archive that survive errors='ignore'
DocxFiles ==
    { [open_error |-> "", text |-> Lit(<<"P", "K">>),
       docx_error |-> "", paragraphs |-> ps] : ps \in ParagraphSeqs }

NAME_DOCX == <<"d",".","d","o","c","x">>

\* What opening a file of the scanned tree may give when its entry is written
ScanFiles ==
    { [open_error |-> "", text |-> <<>>,
       docx_error |-> "PackageNotFoundError", paragraphs |-> <<>>],
      [open_error |-> "", text |-> Lit(<<"H", "i", "\n", "y", "o">>),
       docx_error |-> "PackageNotFoundError", paragraphs |-> <<>>],
      [open_error |-> "PermissionError", text |-> <<>>,
       docx_error |-> "PackageNotFoundError", paragraphs |-> <<>>] }

\* The names tried with every text: one per branch that reads the file
ReadNames == { <<"r",".","t","x","t">>, <<"a",".","x","y","z">>, NAME_DOCX }

\* The names tried with a few files: an upper-case extension, no extension,
\* and one extension of each list of known types
OtherNames ==
    { <<"R",".","T","X","T">>, <<"n","o","t","e","s">>,
      <<"p",".","p","d","f">>, <<"i",".","p","n","g">> }

InitScanIdle ==
    /\ root_kind = "dir"
    /\ fs = <<>>
    /\ pc = "idle"
    /\ collected_files = <<>>
    /\ report = <<>>
    /\ file_index = 0
    /\ tree_calls = 0
    /\ extract_calls = <<>>

InitExtract ==
    /\ Document \in BOOLEAN
    /\ \/ x_name \in ReadNames /\ x_file \in TextFiles \cup UnreadableFiles
       \/ x_name \in OtherNames /\ x_file \in ScanFiles
       \/ x_name = NAME_DOCX /\ x_file \in DocxFiles
    /\ x_pc = "call"
    /\ x_result = Extracted(None, <<>>, NoNote, FALSE, "")
    /\ InitScanIdle

\* One call of get_file_title_and_content
Extract ==
    /\ x_pc = "call"
    /\ x_result' = get_file_title_and_content(x_name, x_file, Document)
    /\ x_pc' = "return"
    /\ UNCHANGED <<Document, x_name, x_file, scan_vars>>

NextExtract == Extract

SpecExtract == InitExtract /\ [][NextExtract]_vars


\* ------------------------------------------------------------------------
\* main and write_report_to_file (src/main.py:234-326)
\* ------------------------------------------------------------------------
NO_EXTENSION == <<"[no extension]">>

\* line 276: the notes that hold "[Empty text file]", "appears empty", "Binary"
\* or "not yet implemented" (no name of the model holds one of these)
NotesSuppressNotAvailable(notes) ==
    notes.fmt \in
      { "[Empty text file]",
        "[DOCX appears empty or has no extractable text/headings]",
        "[Unknown file type ({extension}), appears empty or unreadable as text]",
        "[Binary, media, archive, or shortcut file ({extension}). Content not displayed.]",
        "[Content extraction for {extension} not yet implemented, but file is present.]" }

\* lines 238-244
ReportHeader(files_paths) == [kind |-> "header", total |-> Len(files_paths)]

\* generate_directory_tree, lines 196-204
generate_directory_tree(tree, order) ==
    [kind |-> "tree", lines |-> _tree_generator(tree, <<>>, <<>>, order)]

\* lines 249-250
DetailsHeader == [kind |-> "details"]

\* A variant of Enumerate that counts from 0
Enumerate_FromZero(files_paths) ==
    [k \in 1..Len(files_paths) |-> [i |-> k - 1, item |-> files_paths[k]]]

\* line 252: enumerate(files_paths, 1)
Enumerate(files_paths) ==
    [k \in 1..Len(files_paths) |-> [i |-> k, item |-> files_paths[k]]]

\* lines 253-279, one pass of the loop
FileEntry(i, file_path_str_item, file, document_available) ==
    LET name == PathName(file_path_str_item)
        file_extension == IF suffix(name) # <<>> THEN lower(suffix(name)) ELSE NO_EXTENSION
        got == get_file_title_and_content(name, file, document_available)
        preview ==
            IF Strip(got.content_preview) # <<>>
            THEN [shown |-> "content", text |-> Strip(got.content_preview)]
            ELSE IF got.content_notes = NoNote \/ ~NotesSuppressNotAvailable(got.content_notes)
                 THEN [shown |-> "not available", text |-> <<>>]
                 ELSE [shown |-> "nothing", text |-> <<>>]
    IN  [kind |-> "file", index |-> i, Filename |-> name, Type |-> file_extension,
         Location |-> file_path_str_item, title |-> got.title,
         notes |-> got.content_notes, preview |-> preview]

\* lines 318-322
EmptyReport == [kind |-> "empty"]

InitExtractIdle ==
    /\ x_name = <<>>
    /\ x_file = [open_error |-> "", text |-> <<>>,
                 docx_error |-> "PackageNotFoundError", paragraphs |-> <<>>]
    /\ x_pc = "idle"
    /\ x_result = Extracted(None, <<>>, NoNote, FALSE, "")

Init ==
    /\ Document \in BOOLEAN
    /\ root_kind \in {"dir", "file", "missing"}
    /\ fs = <<>>
    /\ pc = "start"
    /\ collected_files = <<>>
    /\ report = <<>>
    /\ file_index = 0
    /\ tree_calls = 0
    /\ extract_calls = <<>>
    /\ InitExtractIdle

Parent(p) == SubSeq(p, 1, Len(p) - 1)

CanCreate(p) ==
    /\ pc = "start"
    /\ root_kind = "dir"
    /\ p \notin DOMAIN fs
    /\ IsDir(fs, Parent(p))
    /\ Len(p) <= MaxDepth
    /\ Cardinality(DOMAIN fs) < MaxNodes

\* Before the scan: a directory appears in the tree
MkDir ==
    \E d \in DOMAIN fs \cup {<<>>}, n \in Names, r \in BOOLEAN :
        /\ CanCreate(Append(d, n))
        /\ fs' = fs @@ (Append(d, n) :> [kind |-> "dir", readable |-> r])
        /\ UNCHANGED <<Document, root_kind, pc, collected_files, report, file_index,
                       tree_calls, extract_calls, extract_vars>>

\* Before the scan: a file appears in the tree
MkFile ==
    \E d \in DOMAIN fs \cup {<<>>}, n \in Names :
        /\ CanCreate(Append(d, n))
        /\ fs' = fs @@ (Append(d, n) :> [kind |-> "file", readable |-> TRUE])
        /\ UNCHANGED <<Document, root_kind, pc, collected_files, report, file_index,
                       tree_calls, extract_calls, extract_vars>>

\* main, lines 287-311: the path is resolved and the files are collected;
\* a missing root (line 302) or a root that is no directory (line 221) exits
main_collect ==
    /\ pc = "start"
    /\ IF root_kind = "dir"
       THEN \E order \in EnumOrders :
              /\ collected_files' = scan_folder_and_collect_files(fs, order)
              /\ pc' = "collected"
       ELSE /\ pc' = "exit_1"
            /\ UNCHANGED collected_files
    /\ UNCHANGED <<Document, root_kind, fs, report, file_index, tree_calls,
                   extract_calls, extract_vars>>

\* main, lines 316-324
main_empty_report ==
    /\ pc = "collected"
    /\ collected_files = <<>>
    /\ report' = <<EmptyReport>>
    /\ pc' = "done"
    /\ UNCHANGED <<Document, root_kind, fs, collected_files, file_index, tree_calls,
                   extract_calls, extract_vars>>

\* main, line 326, and write_report_to_file, lines 238-250
write_report_tree ==
    /\ pc = "collected"
    /\ collected_files # <<>>
    /\ \E order \in EnumOrders :
         report' = <<ReportHeader(collected_files),
                     generate_directory_tree(fs, order), DetailsHeader>>
    /\ tree_calls' = tree_calls + 1
    /\ file_index' = 0
    /\ pc' = "files"
    /\ UNCHANGED <<Document, root_kind, fs, collected_files, extract_calls, extract_vars>>

\* write_report_to_file, lines 252-279: one pass of the loop, file_index
\* passes having been made
write_report_file ==
    /\ pc = "files"
    /\ LET pass == Enumerate(collected_files)[file_index + 1] IN
       \E file \in ScanFiles :
         /\ report' = Append(report, FileEntry(pass.i, pass.item, file, Document))
         /\ extract_calls' = Append(extract_calls, pass.item)
    /\ file_index' = file_index + 1
    /\ pc' = IF file_index + 1 = Len(collected_files) THEN "done" ELSE "files"
    /\ UNCHANGED <<Document, root_kind, fs, collected_files, tree_calls, extract_vars>>

Next ==
    \/ MkDir
    \/ MkFile
    \/ main_collect
    \/ main_empty_report
    \/ write_report_tree
    \/ write_report_file

Spec == Init /\ [][Next]_vars


\* ------------------------------------------------------------------------
\* Properties of get_file_title_and_content, under SpecExtract
\* ------------------------------------------------------------------------
Returned == x_pc = "return"

x_extension == lower(suffix(x_name))

\* The call read the file as text and the read succeeded: the .txt branch
\* and the fallback branch
TextWasRead == Returned /\ x_result.read_as_text /\ x_result.raised = ""

\* The call parsed the file as a word-processor document
DocxWasParsed ==
    Returned /\ x_extension = EXT_DOCX /\ Document /\ x_result.raised = ""

DocxFullText ==
    Join(NL, [i \in 1..Len(x_file.paragraphs) |-> x_file.paragraphs[i].text])

\* The content the preview is cut from
x_content == IF DocxWasParsed THEN DocxFullText ELSE x_file.text

LineCount(t) == Len(splitlines(t))

CharCapExceeded == StrLen(x_content) > MAX_CONTENT_PREVIEW_CHARS
LineCapExceeded == LineCount(x_content) > MAX_CONTENT_PREVIEW_LINES

\* C3: for every text read by the extractor (the .txt branch and the fallback
\* branch) the preview is at most MAX_CONTENT_PREVIEW_CHARS plus the length of
\* the truncation marker long, and it is the file's content exactly when
\* neither the character cap nor the line cap is exceeded.
C3_PreviewBounded ==
    TextWasRead =>
      /\ StrLen(x_result.content_preview)
           <= MAX_CONTENT_PREVIEW_CHARS + StrLen(TRUNCATION_MARKER)
      /\ (~CharCapExceeded /\ ~LineCapExceeded)
           => x_result.content_preview = x_file.text

\* a text of more than 50 lines whose first 50 lines alone exceed the
\* character cap has been cut to exactly cap + marker characters
C3_Witness ==
    /\ TextWasRead
    /\ LineCapExceeded
    /\ StrLen(x_result.content_preview)
         = MAX_CONTENT_PREVIEW_CHARS + StrLen(TRUNCATION_MARKER)

\* C4 as stated: every failure gives title None, an empty preview and notes
\* of the form "ERROR processing file <name>: <kind> - <detail>".
C4_Original ==
    (Returned /\ x_result.raised # "") =>
      /\ x_result.title = None
      /\ x_result.content_preview = <<>>
      /\ x_result.content_notes.fmt
           = "[ERROR processing file {path_obj.name}: {type(e).__name__} - {e}]"

FallbackTaken ==
    /\ x_extension # EXT_TXT
    /\ ~(x_extension = EXT_DOCX /\ Document)
    /\ x_extension \notin NOT_IMPLEMENTED_EXTENSIONS
    /\ x_extension \notin BINARY_EXTENSIONS

\* C4, amended: every failure gives title None, an empty preview and
\* non-empty notes; the notes are the ERROR form naming the file and the kind
\* of the exception when the failure is in the .txt or the document branch,
\* and "[Unknown file type (<ext>), likely binary or not text-readable]" when
\* it is in the fallback branch.
C4_FailureBecomesNotes ==
    (Returned /\ x_result.raised # "") =>
      /\ x_result.title = None
      /\ x_result.content_preview = <<>>
      /\ x_result.content_notes # NoNote
      /\ IF FallbackTaken
         THEN x_result.content_notes
                = Note("[Unknown file type ({extension}), likely binary or not text-readable]",
                       <<x_extension>>)
         ELSE /\ x_result.content_notes.fmt
                   = "[ERROR processing file {path_obj.name}: {type(e).__name__} - {e}]"
              /\ x_result.content_notes.args[1] = x_name
              /\ x_result.content_notes.args[2] = x_result.raised

\* a .txt file that cannot be opened
C4_Witness ==
    /\ Returned
    /\ x_extension = EXT_TXT
    /\ x_result.raised = "PermissionError"

\* C6: with Document = None, a .docx file is not read, its preview is empty
\* and its notes say that extraction for .docx is not implemented.
C6_DocxUnavailableNotRead ==
    (Returned /\ x_extension = EXT_DOCX /\ ~Document) =>
      /\ ~x_result.read_as_text
      /\ x_result.content_preview = <<>>
      /\ x_result.content_notes
           = Note("[Content extraction for {extension} not yet implemented, but file is present.]",
                  <<x_extension>>)

\* C7 as stated: unless the character cap triggered, the preview, marker
\* included, has at most MAX_CONTENT_PREVIEW_LINES lines.
C7_Original ==
    ((TextWasRead \/ DocxWasParsed) /\ ~CharCapExceeded) =>
      LineCount(x_result.content_preview) <= MAX_CONTENT_PREVIEW_LINES

\* C7, amended: unless the character cap triggered, the preview holds at
\* most MAX_CONTENT_PREVIEW_LINES lines of the content; after a line-cap
\* truncation it is the first MAX_CONTENT_PREVIEW_LINES lines of the content
\* followed by the truncation marker, and the marker adds at most two lines
\* to the count (exactly two, a blank line and the marker line, for a text
\* that was read).
C7_ContentLinesCapped ==
    ((TextWasRead \/ DocxWasParsed) /\ ~CharCapExceeded) =>
      IF LineCapExceeded
      THEN LET kept == Take(x_content,
                            StrLen(x_result.content_preview) - StrLen(TRUNCATION_MARKER))
           IN  /\ x_result.content_preview = Cat(kept, TRUNCATION_MARKER)
               /\ LineCount(kept) <= MAX_CONTENT_PREVIEW_LINES
               /\ LineCount(x_result.content_preview) <= MAX_CONTENT_PREVIEW_LINES + 2
               /\ TextWasRead =>
                    /\ LineCount(kept) = MAX_CONTENT_PREVIEW_LINES
                    /\ LineCount(x_result.content_preview)
                         = MAX_CONTENT_PREVIEW_LINES + 2
      ELSE /\ x_result.content_preview = x_content
           /\ LineCount(x_result.content_preview) <= MAX_CONTENT_PREVIEW_LINES

\* a text within the character cap of more than 50 lines, cut at the line cap
C7_Witness ==
    /\ TextWasRead
    /\ ~CharCapExceeded
    /\ LineCapExceeded
    /\ LineCount(x_result.content_preview) = MAX_CONTENT_PREVIEW_LINES + 2

\* The title the heuristic describes for a text: the first non-blank line,
\* trimmed, and cut to 200 characters followed by "..." when longer; None
\* without such a line
IsHeuristicTitle(title, text) ==
    LET lines == readlines(text)
        trimmed == [i \in 1..Len(lines) |-> Strip(lines[i])]
        non_blank == { i \in 1..Len(lines) : trimmed[i] # <<>> }
    IN  IF non_blank = {} THEN title = None
        ELSE \E i \in non_blank :
               /\ \A j \in non_blank : i <= j
               /\ title = Some(IF StrLen(trimmed[i]) > 200
                               THEN Cat(Take(trimmed[i], 200), Lit(<<".", ".", ".">>))
                               ELSE trimmed[i])

\* C8 as stated: in the .txt branch and in the fallback branch the title is
\* the first non-blank line, trimmed and capped.
C8_Original == TextWasRead => IsHeuristicTitle(x_result.title, x_file.text)

\* C8, amended: in the .txt branch the title is the first non-blank line,
\* trimmed and capped at 200 characters followed by "...", and None exactly
\* when no line is non-blank; in the fallback branch the title is always None.
C8_TitleOfTxtOnly ==
    TextWasRead =>
      IF x_extension = EXT_TXT
      THEN IsHeuristicTitle(x_result.title, x_file.text)
      ELSE x_result.title = None

\* a .txt file whose first line is blank and whose first non-blank line is
\* longer than 200 characters
C8_Witness ==
    /\ TextWasRead
    /\ x_extension = EXT_TXT
    /\ x_result.title # None
    /\ Strip(Head(readlines(x_file.text))) = <<>>
    /\ StrLen(x_result.title[1]) = 203


\* ------------------------------------------------------------------------
\* Properties of the scan, under Spec
\* ------------------------------------------------------------------------
Collected == pc \in {"collected", "files", "done"}

\* The files that can be reached from the root: every directory above the
\* file can be listed and none is named in the exclusion set
ReachableFiles ==
    { p \in DOMAIN fs :
        /\ fs[p].kind = "file"
        /\ \A k \in 1..(Len(p) - 1) :
             /\ p[k] \notin EXCLUDE_FOLDERS
             /\ fs[SubSeq(p, 1, k)].readable }

\* C1: the collector returns exactly the files reachable from the root whose
\* path has no directory component named in the exclusion set, each once, in
\* ascending order of the full path string, whatever the order in which the
\* file system lists the directories.
C1_CollectedSortedExact ==
    Collected =>
      /\ { collected_files[i] : i \in DOMAIN collected_files }
           = { PathStr(p) : p \in ReachableFiles }
      /\ Len(collected_files) = Cardinality(ReachableFiles)
      /\ \A i, j \in DOMAIN collected_files :
           i < j => StrLess(collected_files[i], collected_files[j])

\* "a.txt" is collected before "a/a": the order of the strings, not of the parts
C1_Witness ==
    /\ pc = "collected"
    /\ collected_files = <<NAME_A_TXT, <<"a", "/", "a">>>>

TreeWritten == Len(report) >= 2 /\ report[2].kind = "tree"

TreeLines == report[2].lines

Siblings(l, m) == Parent(l.path) = Parent(m.path)

\* C2: at every level the renderer writes the directories before the files:
\* no file line precedes the line of a sibling directory.
C2_DirectoriesFirst ==
    TreeWritten =>
      \A i, j \in DOMAIN TreeLines :
        (i < j /\ Siblings(TreeLines[i], TreeLines[j]))
          => ~(TreeLines[i].entry = "file" /\ TreeLines[j].entry = "dir")

\* C5: every line of the tree is indented by its entry's depth below the root
\* (depth - 1 continuation units of four characters, then the connector); the
\* last line of a level has the last-branch connector and every other line
\* of the level the middle connector; under a last entry the continuation is
\* blank and under any other entry it is the vertical bar.
C5_IndentationAndConnectors ==
    TreeWritten =>
      \A i \in DOMAIN TreeLines :
        LET l == TreeLines[i] IN
        /\ Len(l.prefix) + 1 = Len(l.path)
        /\ l.connector =
             IF \E j \in DOMAIN TreeLines : j > i /\ Siblings(TreeLines[j], l)
             THEN branch ELSE last_branch
        /\ \A k \in 1..Len(l.prefix) :
             \E a \in DOMAIN TreeLines :
               /\ a < i
               /\ TreeLines[a].path = SubSeq(l.path, 1, k)
               /\ l.prefix[k] = IF TreeLines[a].connector = last_branch
                                THEN BLANK_CONTINUATION ELSE BAR_CONTINUATION

\* the last entry of a directory that is not the last of its own level
C5_Witness ==
    /\ TreeWritten
    /\ \E i \in DOMAIN TreeLines :
         /\ TreeLines[i].entry = "file"
         /\ TreeLines[i].prefix = <<BAR_CONTINUATION>>
         /\ TreeLines[i].connector = last_branch

\* C9: the renderer and the collector agree: no excluded directory nor
\* anything below one is in the tree, and the files of the tree are exactly
\* the files collected.
C9_TreeAndCollectorAgree ==
    TreeWritten =>
      /\ \A i \in DOMAIN TreeLines :
           LET l == TreeLines[i] IN
           \A k \in 1..Len(l.path) :
             (k < Len(l.path) \/ l.entry = "dir") => l.path[k] \notin EXCLUDE_FOLDERS
      /\ { PathStr(TreeLines[i].path) :
             i \in { n \in DOMAIN TreeLines : TreeLines[n].entry = "file" } }
           = { collected_files[i] : i \in DOMAIN collected_files }

\* an excluded directory that holds a file, beside a file that is collected
C9_Witness ==
    /\ TreeWritten
    /\ \E p \in DOMAIN fs :
         /\ fs[p].kind = "file"
         /\ Len(p) >= 2
         /\ p[Len(p) - 1] \in EXCLUDE_FOLDERS

\* The report of a scan that found files: the tree once, before every entry,
\* then one entry per path, numbered from 1 in the order collected
FullReport ==
    /\ tree_calls = 1
    /\ Len(report) = 3 + Len(collected_files)
    /\ report[2].kind = "tree"
    /\ extract_calls = collected_files
    /\ \A k \in 1..Len(collected_files) :
         /\ report[3 + k].kind = "file"
         /\ report[3 + k].index = k
         /\ report[3 + k].Location = collected_files[k]

\* C10 as stated: every scan of a valid root that runs to completion renders
\* the tree once and writes one numbered entry per collected path.
C10_Original == pc = "done" => FullReport

\* C10, amended: a scan of a valid root that collects at least one file and
\* runs to completion renders the tree exactly once, before any entry, calls
\* the extractor once per collected path and writes one entry per path, the
\* i-th numbered i and describing the i-th path; a scan that collects no file
\* writes a report without tree and entries.  At every moment the entries
\* written so far are numbered in order and follow the tree.
C10_TreeOnceThenEntriesInOrder ==
    /\ \A k \in DOMAIN report :
         report[k].kind = "file" =>
           /\ k > 3
           /\ report[2].kind = "tree"
           /\ report[k].index = k - 3
           /\ report[k].Location = collected_files[k - 3]
           /\ extract_calls[k - 3] = collected_files[k - 3]
    /\ tree_calls <= 1
    /\ pc = "done" =>
         IF collected_files # <<>>
         THEN FullReport
         ELSE tree_calls = 0 /\ extract_calls = <<>> /\ report = <<EmptyReport>>

\* a finished scan of at least two files
C10_Witness ==
    /\ pc = "done"
    /\ Len(collected_files) >= 2
    /\ Len(report) = 3 + Len(collected_files)

=============================================================================
